---- MODULE Spec2Model ----
(***************************************************************************)
(* A model of python-struct (src/index.js and its ES5 build                *)
(* src/unnamed/part_000): the three walks over a format string (sizeOf,    *)
(* unpack/unpackFrom, pack), the three type registries, and the codecs     *)
(* they call.                                                              *)
(*                                                                         *)
(* Conventions.  A format string is a sequence of one-character strings.   *)
(* A Buffer is a sequence of bytes 0..255; the byte at JavaScript index k  *)
(* is element k+1.  A JavaScript value is a record made by IntV, BoolV,    *)
(* StrV, LongV or Undefined; a text is its sequence of code points and     *)
(* UTF-8 is computed by utf8Bytes / toStringUtf8.  The JavaScript null of  *)
(* the variable `decimal` is the empty sequence (digits are only ever      *)
(* appended to it, so a non-null decimal is never empty).                  *)
(*                                                                         *)
(* The methods are taken as callable on the exported object, which is how  *)
(* src/example.js calls them and how pack reaches sizeOf                   *)
(* (PythonStruct.sizeOf, src/index.js:524).  That is so in the ES5 build,  *)
(* where PythonStruct is an object literal; the class of src/index.js      *)
(* declares them without `static`, and the walks are otherwise the same.   *)
(***************************************************************************)
EXTENDS Integers, Sequences, FiniteSets, TLC

VARIABLES
    IS_LITTLE_ENDIAN,   \* src/index.js:36, fixed when the module is loaded
    IS_64bit,           \* src/index.js:37, fixed when the module is loaded
    es5,                \* the unpack that ran is that of the ES5 build, src/unnamed/part_000
    fn,                 \* the method that ran: "none", "sizeOf", "pack", "unpack"
    pc,                 \* "idle", "done" (the call returned), "error" (the call threw)
    format,             \* the format argument
    decimal,            \* the digits accumulated when the walk ended; <<>> is null
    size,               \* sizeOf's size
    position,           \* the cursor of pack and unpackFrom
    values,             \* pack's data argument (the value array), kept for a following unpack
    checkBounds,        \* checkBounds as the walk saw it: "true", "false" or "undefined" (omitted)
    variadic,           \* pack was called as pack(format, v1, v2, ...)
    dIndex,             \* pack's index of the next value
    packed,             \* pack's output buffer
    data,               \* unpack's data argument (the buffer)
    unpacked,           \* unpack's result array
    err,                \* the error thrown: "none", "truncated", "insufficient", "range", "type"
    start,              \* unpackFrom's position argument
    chained,            \* this unpack read the buffer the preceding pack returned
    wr,                 \* history: the <<position, size>> of every encoder call of pack
    rd,                 \* history: the <<position, size>> of every decoder call of unpack
    refused,            \* history: the <<position, size>> the bounds check threw on, or <<>>
    trail               \* history: the cursor after every turn of the for loop

vars == <<IS_LITTLE_ENDIAN, IS_64bit, es5, fn, pc, format, decimal, size, position, values,
          checkBounds, variadic, dIndex, packed, data, unpacked, err, start, chained, wr,
          rd, refused, trail>>

----------------------------------------------------------------------------
(* JavaScript values *)

IntV(n) == [t |-> "int", n |-> n, h |-> 0, s |-> <<>>]
BoolV(b) == [t |-> "bool", n |-> IF b THEN 1 ELSE 0, h |-> 0, s |-> <<>>]
StrV(s) == [t |-> "str", n |-> 0, h |-> 0, s |-> s]
\* A Long of the long package: low and high are signed 32-bit words.
LongV(low, high, unsigned) ==
    [t |-> IF unsigned THEN "ulong" ELSE "long", n |-> low, h |-> high, s |-> <<>>]
Undefined == [t |-> "undefined", n |-> 0, h |-> 0, s |-> <<>>]

\* if (x) ... of a checkBounds argument
\* the reading under which only an explicit false switches a check off
TruthyUnlessFalse(x) == x # "false"
Truthy(x) == x = "true"

----------------------------------------------------------------------------
(* Buffer primitives *)

Min(a, b) == IF a < b THEN a ELSE b
Max(a, b) == IF a > b THEN a ELSE b

InBuf(buf, k) == k >= 0 /\ k < Len(buf)

\* buf[k] = b: the store wraps to a byte and is dropped outside the buffer
SetAt(buf, k, b) == IF InBuf(buf, k) THEN [buf EXCEPT ![k + 1] = b % 256] ELSE buf

\* the bytes bs written at pos, those past the end dropped
WriteBytes(buf, pos, bs) ==
    [j \in 1..Len(buf) |->
        IF j - 1 >= pos /\ j - 1 < pos + Len(bs) THEN bs[j - pos] ELSE buf[j]]

\* buf.fill(v, from, to)
Fill(buf, v, from, to) ==
    [j \in 1..Len(buf) |-> IF j - 1 >= from /\ j - 1 < to THEN v ELSE buf[j]]

\* buf.slice(s, e): a negative index counts from the end, both are clamped
SliceIndex(buf, k) == IF k < 0 THEN Max(Len(buf) + k, 0) ELSE Min(k, Len(buf))
Slice(buf, s, e) == SubSeq(buf, SliceIndex(buf, s) + 1, SliceIndex(buf, e))

\* buf.indexOf(0, pos), -1 when there is none
IndexOfZero(buf, pos) ==
    LET hits == {k \in Max(pos, 0)..(Len(buf) - 1) : buf[k + 1] = 0}
    IN IF hits = {} THEN -1 ELSE CHOOSE k \in hits : \A m \in hits : k <= m

Reverse(s) == [j \in 1..Len(s) |-> s[Len(s) + 1 - j]]

Pow256(k) == CASE k = 0 -> 1 [] k = 1 -> 256 [] k = 2 -> 65536 [] OTHER -> 16777216

\* the n low bytes of v in two's complement, least significant first
IntBytes(v, n) == [k \in 1..n |-> (v \div Pow256(k - 1)) % 256]

RECURSIVE UIntOf(_)
\* the unsigned value of little-endian bytes
UIntOf(bs) == IF bs = <<>> THEN 0 ELSE bs[1] + 256 * UIntOf(Tail(bs))

\* the signed value of little-endian bytes
SIntOf(bs) ==
    LET n == Len(bs)
        top == IF bs[n] >= 128 THEN bs[n] - 256 ELSE bs[n]
    IN UIntOf(SubSeq(bs, 1, n - 1)) + top * Pow256(n - 1)

\* buf.read(U)Int<8n>(LE|BE)(pos): the value, after the range check
ReadInt(buf, pos, n, le, signed) ==
    LET raw == SubSeq(buf, pos + 1, pos + n)
        bs == IF le THEN raw ELSE Reverse(raw)
    IN IF signed THEN SIntOf(bs) ELSE UIntOf(bs)

\* buf.write(U)Int<8n>(LE|BE)(v, pos, true)
WriteInt(buf, pos, v, n, le) ==
    WriteBytes(buf, pos, IF le THEN IntBytes(v, n) ELSE Reverse(IntBytes(v, n)))

----------------------------------------------------------------------------
(* UTF-8, for the code points below 2048 *)

utf8Bytes(cp) == IF cp < 128 THEN <<cp>> ELSE <<192 + (cp \div 64), 128 + (cp % 64)>>

RECURSIVE utf8Encode(_)
utf8Encode(s) == IF s = <<>> THEN <<>> ELSE utf8Bytes(s[1]) \o utf8Encode(Tail(s))

RECURSIVE toStringUtf8(_)
\* buf.toString('utf8'): an ill-formed byte decodes to U+FFFD
toStringUtf8(bs) ==
    IF bs = <<>> THEN <<>>
    ELSE IF bs[1] < 128 THEN <<bs[1]>> \o toStringUtf8(Tail(bs))
    ELSE IF bs[1] >= 194 /\ bs[1] < 224 /\ Len(bs) >= 2 /\ bs[2] >= 128 /\ bs[2] < 192
         THEN <<(bs[1] - 192) * 64 + (bs[2] - 128)>> \o toStringUtf8(SubSeq(bs, 3, Len(bs)))
    ELSE <<65533>> \o toStringUtf8(Tail(bs))

RECURSIVE wholeChars(_, _)
\* the bytes of the longest prefix of whole characters of s that fits in room bytes
wholeChars(s, room) ==
    IF s = <<>> \/ Len(utf8Bytes(s[1])) > room THEN <<>>
    ELSE utf8Bytes(s[1]) \o wholeChars(Tail(s), room - Len(utf8Bytes(s[1])))

----------------------------------------------------------------------------
(* The codecs, src/index.js:41-105 *)

\* What a codec call gives back: the value read or the buffer written, or the error thrown.
Read(v) == [err |-> "none", v |-> v]
ReadThrows(e) == [err |-> e, v |-> Undefined]
Wrote(buf) == [err |-> "none", buf |-> buf]
WriteThrows(e, buf) == [err |-> e, buf |-> buf]

\* src/index.js:41-45
UNPACK_STRING(d, pos, length) ==
    LET nextZero == IndexOfZero(d, pos)
        endIndex == Min(pos + length, IF nextZero = -1 THEN Len(d) ELSE nextZero)
    IN StrV(toStringUtf8(Slice(d, pos, endIndex)))

\* src/unnamed/part_000:41-44, the ES5 build: nextZero is used as it comes, -1 included
UNPACK_STRING_ES5(d, pos, length) ==
    LET nextZero == IndexOfZero(d, pos)
    IN StrV(toStringUtf8(Slice(d, pos, Min(pos + length, nextZero))))

\* src/index.js:47-52; pack.write writes whole characters only and returns the bytes written
PACK_STRING(v, pack, pos, length) ==
    IF v.t # "str" THEN WriteThrows("type", pack)
    ELSE LET bs == wholeChars(v.s, Min(length, Len(pack) - pos))
             written == Len(bs)
             w == WriteBytes(pack, pos, bs)
         IN Wrote(IF written < length THEN Fill(w, 0, pos + written, pos + length) ELSE w)

\* src/index.js:54-61; data[0] of an empty buffer is undefined, and undefined >= length is false
UNPACK_PASCAL_STRING(d, pos, length) ==
    LET n0 == IF Len(d) > 0 THEN d[1] ELSE 0
        n == IF Len(d) > 0 /\ n0 >= length THEN length - 1 ELSE n0
    IN StrV(toStringUtf8(Slice(d, pos + 1, pos + 1 + n)))

\* src/index.js:63-75; bytes is the Buffer of the text, and bytes[pos] = n stores into it;
\* bytes.copy throws a RangeError on a negative sourceEnd
PACK_PASCAL_STRING(v, pack, pos, length) ==
    IF v.t # "str" THEN WriteThrows("type", pack)
    ELSE LET bytes0 == utf8Encode(v.s)
             n0 == Len(bytes0)
             n1 == IF n0 >= length THEN length - 1 ELSE n0
             n == IF n1 > 255 THEN 255 ELSE n1
             bytes == SetAt(bytes0, pos, n)
         IN IF n < 0 THEN WriteThrows("range", pack)
            ELSE Wrote(Fill(WriteBytes(pack, pos + 1, SubSeq(bytes, 1, n)),
                            0, pos + 1 + n, pos + length))

\* src/index.js:86-89: Long.fromBits(low, high, unsigned) of two readInt32
UNPACK_INT64(d, pos, le, unsigned) ==
    IF ~(InBuf(d, pos) /\ InBuf(d, pos + 7)) THEN ReadThrows("range")
    ELSE IF le
         THEN Read(LongV(ReadInt(d, pos, 4, TRUE, TRUE), ReadInt(d, pos + 4, 4, TRUE, TRUE), unsigned))
         ELSE Read(LongV(ReadInt(d, pos + 4, 4, FALSE, TRUE), ReadInt(d, pos, 4, FALSE, TRUE), unsigned))

\* the number a numeric store makes of a value: undefined and text store as 0 (NaN)
Num(v) == IF v.t \in {"int", "bool"} THEN v.n ELSE 0

\* src/index.js:92 and 98: a value that is no Long becomes Long.fromInt(value)
fromInt(v) ==
    IF v.t \in {"long", "ulong"} THEN v
    ELSE LongV(Num(v), IF Num(v) < 0 THEN -1 ELSE 0, FALSE)

\* an encoder that writes the two words in the other order
PACK_INT64Swapped(v, pack, pos, le) ==
    IF le THEN Wrote(WriteInt(WriteInt(pack, pos, fromInt(v).h, 4, TRUE),
                              pos + 4, fromInt(v).n, 4, TRUE))
    ELSE Wrote(WriteInt(WriteInt(pack, pos, fromInt(v).n, 4, FALSE),
                        pos + 4, fromInt(v).h, 4, FALSE))

\* src/index.js:91-105
PACK_INT64(v, pack, pos, le) ==
    LET l == fromInt(v)
    IN IF le THEN Wrote(WriteInt(WriteInt(pack, pos, l.n, 4, TRUE), pos + 4, l.h, 4, TRUE))
       ELSE Wrote(WriteInt(WriteInt(pack, pos, l.h, 4, FALSE), pos + 4, l.n, 4, FALSE))

\* a readInt of n bytes at pos, which throws a RangeError outside the buffer
ReadIntChecked(d, pos, n, le, signed) ==
    IF InBuf(d, pos) /\ InBuf(d, pos + n - 1) THEN Read(IntV(ReadInt(d, pos, n, le, signed)))
    ELSE ReadThrows("range")

\* if (data) of a value
TruthyValue(v) ==
    CASE v.t \in {"int", "bool"} -> v.n # 0
      [] v.t = "str" -> v.s # <<>>
      [] v.t = "undefined" -> FALSE
      [] OTHER -> TRUE

\* op[2](data, position, decimal): the decode function of a registry entry.
\* The IEEE-754 codecs of f and d are not modelled; no modelled call decodes them.
Unpack(codec, d, pos, length, legacy) ==
    CASE codec.k = "CHAR" -> Read(StrV(<<IF InBuf(d, pos) THEN d[pos + 1] ELSE 0>>))
      [] codec.k = "INT8" -> ReadIntChecked(d, pos, 1, TRUE, TRUE)
      [] codec.k = "UINT8" -> Read(IF InBuf(d, pos) THEN IntV(d[pos + 1]) ELSE Undefined)
      [] codec.k = "INT16" -> ReadIntChecked(d, pos, 2, codec.le, TRUE)
      [] codec.k = "UINT16" -> ReadIntChecked(d, pos, 2, codec.le, FALSE)
      [] codec.k = "INT32" -> ReadIntChecked(d, pos, 4, codec.le, TRUE)
      [] codec.k = "UINT32" -> ReadIntChecked(d, pos, 4, codec.le, FALSE)
      [] codec.k = "INT64" -> UNPACK_INT64(d, pos, codec.le, FALSE)
      [] codec.k = "UINT64" -> UNPACK_INT64(d, pos, codec.le, TRUE)
      [] codec.k = "BOOL" -> Read(BoolV(IF InBuf(d, pos) THEN d[pos + 1] # 0 ELSE TRUE))
      [] codec.k = "STRING" ->
            Read(IF legacy THEN UNPACK_STRING_ES5(d, pos, length) ELSE UNPACK_STRING(d, pos, length))
      [] codec.k = "PASCAL_STRING" -> Read(UNPACK_PASCAL_STRING(d, pos, length))
      [] OTHER -> ReadThrows("unmodelled")

\* op[3](data[dIndex], packed, position, decimal): the encode function of a registry entry
Pack(codec, v, pack, pos, length) ==
    CASE codec.k = "CHAR" ->
            IF v.t # "str" THEN WriteThrows("type", pack)
            ELSE Wrote(SetAt(pack, pos, IF v.s = <<>> THEN 0 ELSE v.s[1]))
      [] codec.k \in {"INT8", "UINT8"} -> Wrote(SetAt(pack, pos, Num(v)))
      [] codec.k \in {"INT16", "UINT16"} -> Wrote(WriteInt(pack, pos, Num(v), 2, codec.le))
      [] codec.k \in {"INT32", "UINT32"} -> Wrote(WriteInt(pack, pos, Num(v), 4, codec.le))
      [] codec.k \in {"INT64", "UINT64"} -> PACK_INT64(v, pack, pos, codec.le)
      [] codec.k = "BOOL" -> Wrote(SetAt(pack, pos, IF TruthyValue(v) THEN 1 ELSE 0))
      [] codec.k = "STRING" -> PACK_STRING(v, pack, pos, length)
      [] codec.k = "PASCAL_STRING" -> PACK_PASCAL_STRING(v, pack, pos, length)
      [] OTHER -> WriteThrows("unmodelled", pack)

----------------------------------------------------------------------------
(* The registries, src/index.js:112-358 *)

Codes == {"x", "c", "b", "B", "h", "H", "i", "I", "l", "L", "f", "d", "s", "p", "P",
          "q", "Q", "?"}

Codec(k, le) == [k |-> k, le |-> le]
Null == Codec("null", TRUE)
\* [ size, alignment, unpack function, pack function ]
Entry(sz, al, un, pk) == [size |-> sz, align |-> al, unpack |-> un, pack |-> pk]
\* an entry whose two functions are the same codec
Sym(sz, al, k, le) == Entry(sz, al, Codec(k, le), Codec(k, le))

\* the entries that are the same in the three registries but for byte order and alignment
CommonEntry(c, le, aligned) ==
    LET al(n) == IF aligned THEN n ELSE 1
    IN CASE c = "x" -> Entry(1, 1, Null, Null)
         [] c = "c" -> Sym(1, 1, "CHAR", le)
         [] c = "b" -> Sym(1, 1, "INT8", le)
         [] c = "B" -> Sym(1, 1, "UINT8", le)
         [] c = "h" -> Sym(2, al(2), "INT16", le)
         [] c = "H" -> Sym(2, al(2), "UINT16", le)
         [] c = "i" -> Sym(4, al(4), "INT32", le)
         [] c = "I" -> Sym(4, al(4), "UINT32", le)
         [] c = "l" -> Sym(4, al(4), "INT32", le)
         [] c = "L" -> Sym(4, al(4), "UINT32", le)
         [] c = "f" -> Sym(4, al(4), "FLOAT", le)
         [] c = "d" -> Sym(8, al(8), "DOUBLE", le)
         [] c = "s" -> Sym(1, 1, "STRING", le)
         [] c = "p" -> Sym(1, 1, "PASCAL_STRING", le)
         [] c = "P" -> IF IS_64bit THEN Sym(8, al(8), "UINT64", le)
                       ELSE Sym(4, al(4), "UINT32", le)
         [] c = "q" -> Sym(8, al(8), "INT64", le)
         [] c = "Q" -> Sym(8, al(8), "UINT64", le)
         [] c = "?" -> Sym(1, 1, "BOOL", le)

\* src/index.js:112-226
NATIVE_MAP(c) == CommonEntry(c, IS_LITTLE_ENDIAN, TRUE)
\* src/index.js:228-292
LITTLE_ENDIAN_MAP(c) == CommonEntry(c, TRUE, FALSE)
\* src/index.js:294-358
BIG_ENDIAN_MAP(c) == CommonEntry(c, FALSE, FALSE)

\* map[c] of the registry named m; HasOp is the test `if (!op) continue`
HasOp(c) == c \in Codes
MapOp(m, c) ==
    CASE m = "NATIVE_MAP" -> NATIVE_MAP(c)
      [] m = "LITTLE_ENDIAN_MAP" -> LITTLE_ENDIAN_MAP(c)
      [] OTHER -> BIG_ENDIAN_MAP(c)

\* a selection that does not know '!' and leaves it to the default
selectMapWithoutBang(f) ==
    LET c == IF Len(f) > 0 THEN f[1] ELSE "undefined"
    IN CASE c = "<" -> [map |-> "LITTLE_ENDIAN_MAP", skipFirst |-> TRUE]
         [] c = ">" -> [map |-> "BIG_ENDIAN_MAP", skipFirst |-> TRUE]
         [] c = "=" -> [map |-> IF IS_LITTLE_ENDIAN THEN "LITTLE_ENDIAN_MAP"
                                ELSE "BIG_ENDIAN_MAP", skipFirst |-> TRUE]
         [] c = "@" -> [map |-> "NATIVE_MAP", skipFirst |-> TRUE]
         [] OTHER -> [map |-> "NATIVE_MAP", skipFirst |-> FALSE]

\* src/index.js:360-390; format[0] of an empty format is undefined and takes the default
selectMap(f) ==
    LET c == IF Len(f) > 0 THEN f[1] ELSE "undefined"
    IN CASE c = "<" -> [map |-> "LITTLE_ENDIAN_MAP", skipFirst |-> TRUE]
         [] c \in {">", "!"} -> [map |-> "BIG_ENDIAN_MAP", skipFirst |-> TRUE]
         [] c = "=" -> [map |-> IF IS_LITTLE_ENDIAN THEN "LITTLE_ENDIAN_MAP"
                                ELSE "BIG_ENDIAN_MAP", skipFirst |-> TRUE]
         [] c = "@" -> [map |-> "NATIVE_MAP", skipFirst |-> TRUE]
         [] OTHER -> [map |-> "NATIVE_MAP", skipFirst |-> FALSE]

----------------------------------------------------------------------------
(* The loop bodies of the three walks *)

Digits == {"0", "1", "2", "3", "4", "5", "6", "7", "8", "9"}
\* c >= '0' && c <= '9'
IsDigit(c) == c \in Digits
DigitValue(c) ==
    CASE c = "0" -> 0 [] c = "1" -> 1 [] c = "2" -> 2 [] c = "3" -> 3 [] c = "4" -> 4
      [] c = "5" -> 5 [] c = "6" -> 6 [] c = "7" -> 7 [] c = "8" -> 8 [] OTHER -> 9

RECURSIVE parseInt(_)
\* parseInt(decimal, 10) of a string of digits
parseInt(d) ==
    IF d = <<>> THEN 0 ELSE 10 * parseInt(SubSeq(d, 1, Len(d) - 1)) + DigitValue(d[Len(d)])

\* decimal = decimal ? parseInt(decimal, 10) : 0
decimalValue(d) == IF d # <<>> THEN parseInt(d) ELSE 0

\* a || b of two numbers
OrElse(a, b) == IF a # 0 THEN a ELSE b

\* a cursor that is never aligned
alignUpNever(pos, align) == pos
\* Math.ceil(position / align) * align, under the test align > 1
alignUp(pos, align) ==
    IF align > 1 THEN ((pos + align - 1) \div align) * align ELSE pos

\* size of the field: src/index.js:425-431
fieldBytes(c, op, dec) ==
    IF c = "s" THEN OrElse(dec, 0)
    ELSE IF c = "p" THEN OrElse(dec, 1)
    ELSE op.size * OrElse(dec, 1)

\* a loop body in which an unrecognized character clears the digits before it
sizeOfBodyDiscarding(m, c, st) ==
    IF IsDigit(c) THEN [st EXCEPT !.decimal = Append(st.decimal, c)]
    ELSE IF ~HasOp(c) THEN [st EXCEPT !.decimal = <<>>]
    ELSE [size |-> alignUp(st.size, MapOp(m, c).align)
                       + fieldBytes(c, MapOp(m, c), decimalValue(st.decimal)),
          decimal |-> <<>>]

\* The body of sizeOf's for loop, src/index.js:407-432, on st = [size, decimal]
sizeOfBody(m, c, st) ==
    IF IsDigit(c) THEN [st EXCEPT !.decimal = Append(st.decimal, c)]
    ELSE IF ~HasOp(c) THEN st
    ELSE LET op == MapOp(m, c)
             dec == decimalValue(st.decimal)
         IN [size |-> alignUp(st.size, op.align) + fieldBytes(c, op, dec),
             decimal |-> <<>>]

\* repeat and size of a field in unpackFrom and pack: src/index.js:480-488 and 562-570
fieldRepeat(c, dec) == IF c \in {"s", "p"} THEN 1 ELSE OrElse(dec, 1)
\* the size of one element whatever the code, as sizeOf never computes it
fieldSizeOfOp(c, op, dec) == op.size
fieldSize(c, op, dec) ==
    IF c = "s" THEN dec ELSE IF c = "p" THEN OrElse(dec, 1) ELSE op.size

\* the bounds test of unpackFrom, src/index.js:496
\* the test that lets a field end exactly at the end of the buffer
endOfBufferPast(pos, sz, d) == pos + sz > Len(d)
endOfBuffer(pos, sz, d) == pos + sz >= Len(d)

RECURSIVE unpackWhile(_, _, _, _, _, _, _, _)
\* The while loop of unpackFrom, src/index.js:491-509,
\* on st = [position, decimal, unpacked, err, rd, refused, trail]
unpackWhile(op, sz, dec, repeat, d, cb, legacy, st) ==
    IF repeat <= 0 THEN st
    ELSE IF op.unpack = Null THEN unpackWhile(op, sz, dec, repeat - 1, d, cb, legacy, st)
    ELSE IF Truthy(cb) /\ endOfBuffer(st.position, sz, d)
         THEN [st EXCEPT !.err = "truncated", !.refused = <<st.position, sz>>]
    ELSE LET r == Unpack(op.unpack, d, st.position, dec, legacy)
         IN IF r.err # "none" THEN [st EXCEPT !.err = r.err]
            ELSE unpackWhile(op, sz, dec, repeat - 1, d, cb, legacy,
                     [st EXCEPT !.unpacked = Append(@, r.v),
                                !.rd = Append(@, <<st.position, sz>>),
                                !.position = @ + sz])

\* The body of unpackFrom's for loop, src/index.js:456-510
unpackBody(m, c, d, cb, legacy, st) ==
    IF IsDigit(c)
    THEN [st EXCEPT !.decimal = Append(st.decimal, c), !.trail = Append(@, st.position)]
    ELSE IF ~HasOp(c) THEN [st EXCEPT !.trail = Append(@, st.position)]
    ELSE LET op == MapOp(m, c)
             dec == decimalValue(st.decimal)
             aligned == [st EXCEPT !.position = alignUp(@, op.align)]
             after == unpackWhile(op, fieldSize(c, op, dec), dec, fieldRepeat(c, dec),
                                  d, cb, legacy, aligned)
         IN [after EXCEPT !.decimal = IF after.err = "none" THEN <<>> ELSE st.decimal,
                          !.trail = Append(@, after.position)]

\* data[dIndex]
valueAt(vs, k) == IF k < Len(vs) THEN vs[k + 1] ELSE Undefined

\* the bounds test of pack, src/index.js:578
endOfData(k, vs) == k >= Len(vs)

RECURSIVE packWhile(_, _, _, _, _, _, _)
\* The while loop of pack, src/index.js:573-593,
\* on st = [position, decimal, dIndex, packed, err, wr, trail]
packWhile(op, sz, dec, repeat, vs, cb, st) ==
    IF repeat <= 0 THEN st
    ELSE IF op.pack = Null
         THEN packWhile(op, sz, dec, repeat - 1, vs, cb, [st EXCEPT !.position = @ + sz])
    ELSE IF Truthy(cb) /\ endOfData(st.dIndex, vs) THEN [st EXCEPT !.err = "insufficient"]
    ELSE LET r == Pack(op.pack, valueAt(vs, st.dIndex), st.packed, st.position, dec)
         IN IF r.err # "none" THEN [st EXCEPT !.err = r.err]
            ELSE packWhile(op, sz, dec, repeat - 1, vs, cb,
                     [st EXCEPT !.packed = r.buf,
                                !.dIndex = @ + 1,
                                !.wr = Append(@, <<st.position, sz>>),
                                !.position = @ + sz])

\* The body of pack's for loop, src/index.js:538-594
packBody(m, c, vs, cb, st) ==
    IF IsDigit(c)
    THEN [st EXCEPT !.decimal = Append(st.decimal, c), !.trail = Append(@, st.position)]
    ELSE IF ~HasOp(c) THEN [st EXCEPT !.trail = Append(@, st.position)]
    ELSE LET op == MapOp(m, c)
             dec == decimalValue(st.decimal)
             aligned == [st EXCEPT !.position = alignUp(@, op.align)]
             after == packWhile(op, fieldSize(c, op, dec), dec, fieldRepeat(c, dec),
                                vs, cb, aligned)
         IN [after EXCEPT !.decimal = IF after.err = "none" THEN <<>> ELSE st.decimal,
                          !.trail = Append(@, after.position)]

\* where the for loops start: src/index.js:399-404
firstIndex(f) == IF selectMap(f).skipFirst THEN 1 ELSE 0

RECURSIVE sizeOfFrom(_, _, _, _)
\* sizeOf's for loop from index k on: src/index.js:406-433
sizeOfFrom(f, m, k, st) ==
    IF k >= Len(f) THEN st
    ELSE LET t == sizeOfBody(m, f[k + 1], [size |-> st.size, decimal |-> st.decimal])
         IN sizeOfFrom(f, m, k + 1,
                [size |-> t.size, decimal |-> t.decimal, trail |-> Append(st.trail, t.size)])

\* the walk of sizeOf(format): src/index.js:394-436
sizeOfWalk(f) ==
    sizeOfFrom(f, selectMap(f).map, firstIndex(f), [size |-> 0, decimal |-> <<>>, trail |-> <<>>])

\* PythonStruct.sizeOf(format)
sizeOf(f) == sizeOfWalk(f).size

RECURSIVE packFrom(_, _, _, _, _, _)
\* pack's for loop from index k on, until it ends or throws: src/index.js:537-595
packFrom(f, m, k, vs, cb, st) ==
    IF k >= Len(f) \/ st.err # "none" THEN st
    ELSE packFrom(f, m, k + 1, vs, cb, packBody(m, f[k + 1], vs, cb, st))

\* the walk of pack(format, data, checkBounds) over the new Buffer buf: src/index.js:524-597
packWalk(f, vs, cb, buf) ==
    packFrom(f, selectMap(f).map, firstIndex(f), vs, cb,
             [position |-> 0, decimal |-> <<>>, dIndex |-> 0, packed |-> buf,
              err |-> "none", wr |-> <<>>, trail |-> <<>>])

RECURSIVE unpackFromLoop(_, _, _, _, _, _, _)
\* unpackFrom's for loop from index k on, until it ends or throws: src/index.js:455-511
unpackFromLoop(f, m, k, d, cb, legacy, st) ==
    IF k >= Len(f) \/ st.err # "none" THEN st
    ELSE unpackFromLoop(f, m, k + 1, d, cb, legacy, unpackBody(m, f[k + 1], d, cb, legacy, st))

\* the walk of unpackFrom(format, data, checkBounds, position): src/index.js:442-514
unpackFrom(f, d, cb, pos, legacy) ==
    unpackFromLoop(f, selectMap(f).map, firstIndex(f), d, cb, legacy,
                   [position |-> pos, decimal |-> <<>>, unpacked |-> <<>>, err |-> "none",
                    rd |-> <<>>, refused |-> <<>>, trail |-> <<>>])

----------------------------------------------------------------------------
(* The calls the model makes *)

MaxBody == 2        \* characters of a format after its prefix
MaxData == 3        \* bytes of a buffer handed to unpack

BodyAlphabet == {"2", "x", "B", "h", "s", "p", "z"}
\* longer formats: a count before an ignored character, a text field after another field,
\* a wide text field, pad bytes between fields
Longer == {<<"2", "z", "B">>, <<"B", "2", "p">>, <<"B", "2", "s">>, <<"x", "2", "p">>,
           <<"2", "2", "p">>, <<"2", "2", "s">>, <<"2", "x", "B">>, <<"B", "x", "h">>,
           <<"B", "z", "2", "h">>}
Bodies == UNION {[1..n -> BodyAlphabet] : n \in 0..MaxBody} \cup Longer
Prefixes == {"@", "=", "<", ">", "!"}
ExplicitPrefixes == {"=", "<", ">", "!"}
\* no prefix (the native registry, aligned) and a standard one
General == {pre \o b : pre \in {<<>>, <<"<">>}, b \in Bodies}
AnyPrefix == {pre \o b : pre \in {<<>>} \cup {<<c>> : c \in Prefixes}, b \in Bodies}
ValueCodes == Codes \ {"x", "f", "d"}
\* one value-bearing code under an explicit byte-order prefix
Single == {<<pre, c>> : pre \in ExplicitPrefixes, c \in ValueCodes}
OneCode == {<<c>> : c \in Codes} \cup {<<pre, c>> : pre \in Prefixes, c \in Codes}

Bytes == {0, 1}
Buffers == UNION {[1..n -> Bytes] : n \in 0..MaxData}
\* unpackFrom's position argument
Starts == {0, 1}
\* what new Buffer(size) may hold before it is written: zeros, or whatever was there
Garbage == {0, 170}

chars(f) == {f[j] : j \in 1..Len(f)}

\* IS_64bit is read by the P entries only, and IS_LITTLE_ENDIAN by the native registry and
\* by selectMap for '=' only: pack and unpack calls that read neither are made on the
\* little-endian 64-bit host alone.
OnThisHost(f) ==
    /\ IS_64bit \/ "P" \in chars(f)
    /\ IS_LITTLE_ENDIAN \/ selectMap(f).map = "NATIVE_MAP" \/ (Len(f) > 0 /\ f[1] = "=")

\* unpack of the ES5 build differs from unpackFrom at position 0 in UNPACK_STRING only
OnThisBuild(f, legacy, pos) == legacy => ("s" \in chars(f) /\ pos = 0)

RECURSIVE consumersFrom(_, _, _)
\* the codes of the value-consuming occurrences of f from index k on, in order
consumersFrom(f, k, dec) ==
    IF k >= Len(f) THEN <<>>
    ELSE LET c == f[k + 1]
         IN IF IsDigit(c) THEN consumersFrom(f, k + 1, Append(dec, c))
            ELSE IF ~HasOp(c) THEN consumersFrom(f, k + 1, dec)
            ELSE IF c = "x" THEN consumersFrom(f, k + 1, <<>>)
            ELSE [j \in 1..fieldRepeat(c, decimalValue(dec)) |-> c]
                 \o consumersFrom(f, k + 1, <<>>)
consumers(f) == consumersFrom(f, firstIndex(f), <<>>)

\* a value of the type code c takes; w picks between two
Sample(c, w) ==
    CASE c = "B" -> IntV(IF w = 1 THEN 7 ELSE 255)
      [] c = "h" -> IntV(IF w = 1 THEN 258 ELSE -2)
      [] OTHER -> StrV(IF w = 1 THEN <<65>> ELSE <<233, 66, 65>>)

\* value arrays for f: one value too few, the right number, one too many
ValueArrays(f) ==
    LET cs == consumers(f)
        n == Len(cs)
    IN {[j \in 1..k |-> IF j <= n THEN Sample(cs[j], w) ELSE IntV(7)] :
            k \in Max(0, n - 1)..(n + 1), w \in 1..2}

\* values in the range of a code
InRange(c) ==
    CASE c = "c" -> {StrV(<<65>>), StrV(<<233>>)}
      [] c = "b" -> {IntV(-128), IntV(-1), IntV(127)}
      [] c = "B" -> {IntV(0), IntV(255)}
      [] c = "h" -> {IntV(-32768), IntV(258), IntV(32767)}
      [] c = "H" -> {IntV(258), IntV(65535)}
      [] c \in {"i", "l"} -> {IntV(-2147483647), IntV(-2), IntV(16909060)}
      [] c \in {"I", "L"} -> {IntV(0), IntV(16909060), IntV(2147483647)}
      [] c = "q" -> {LongV(-1, -1, FALSE), LongV(16909060, 84281096, FALSE),
                     LongV(-2, 2147483647, FALSE)}
      [] c = "Q" -> {LongV(-1, -1, TRUE), LongV(16909060, 84281096, TRUE)}
      [] c = "P" -> IF IS_64bit THEN {LongV(16909060, -2, TRUE)} ELSE {IntV(16909060)}
      [] c = "?" -> {BoolV(TRUE), BoolV(FALSE)}
      [] OTHER -> {StrV(<<>>)}

\* explicit counts: zero, one digit, several digits, a leading zero
Counts == {<<"0">>, <<"3">>, <<"1", "0">>, <<"0", "2">>}
\* one code under a count, under every prefix and under none
Counted == {pre \o n \o <<c>> : pre \in {<<>>} \cup {<<q>> : q \in Prefixes},
                                 n \in Counts, c \in Codes}

\* zero-free texts for a text field of two bytes: shorter, exact, longer, and one whose
\* second character straddles the end of the field
Texts == {<<65>>, <<65, 66>>, <<65, 66, 67>>, <<65, 233>>}
TextCalls ==
    {[f |-> <<"<", "2", "s">>, vs |-> <<StrV(t)>>] : t \in Texts}
    \cup {[f |-> <<"<", "2", "s", "B">>, vs |-> <<StrV(t), IntV(255)>>] : t \in Texts}

\* fields under a count of zero, and two 16-bit values under a count of two
CountCalls ==
    {[f |-> <<"<", "0", "B">>, vs |-> <<IntV(7)>>],
     [f |-> <<"<", "0", "s", "B">>, vs |-> <<StrV(<<65>>), IntV(7)>>],
     [f |-> <<"<", "2", "H">>, vs |-> <<IntV(1), IntV(2)>>]}

\* two fields, the second aligned in the native registry, under every prefix
PrefixCalls == {[f |-> <<q, "B", "h">>, vs |-> <<IntV(7), IntV(258)>>] : q \in Prefixes}

\* formats with a prefix character past the first position
Inner == {<<"B", "<", "h">>, <<"<", "B", ">", "h">>, <<"2", "@", "B">>, <<"h", "!", "B">>,
          <<"=", "B", "=", "h">>, <<"@", "@", "h">>}

\* a byte and a 32-bit field, under every prefix and under none
ByteThenInt == {pre \o <<"b", "i">> : pre \in {<<>>} \cup {<<q>> : q \in Prefixes}}

\* plain numbers given for a 64-bit code
NumberCalls ==
    {[f |-> <<q, c>>, vs |-> <<IntV(n)>>] :
        q \in ExplicitPrefixes, c \in {"q", "Q"}, n \in {-2, 16909060}}

PackCalls ==
    UNION {{[f |-> f, vs |-> vs] : vs \in ValueArrays(f)} : f \in General}
    \cup UNION {{[f |-> f, vs |-> <<v>>] : v \in InRange(f[2])} : f \in Single}
    \cup TextCalls
    \cup CountCalls
    \cup PrefixCalls
    \cup NumberCalls

\* how pack is called: with an array and checkBounds given or omitted, or with the values
\* as trailing arguments
Modes == {[va |-> FALSE, cb |-> "true"], [va |-> FALSE, cb |-> "false"],
          [va |-> FALSE, cb |-> "undefined"], [va |-> TRUE, cb |-> "undefined"]}

----------------------------------------------------------------------------
(* The state machine: a state is the module as loaded on a host, with the last call made
   on it and what the call left *)

Init ==
    /\ IS_LITTLE_ENDIAN \in BOOLEAN
    /\ IS_64bit \in BOOLEAN
    /\ es5 = FALSE
    /\ fn = "none"
    /\ pc = "idle"
    /\ format = <<>>
    /\ decimal = <<>>
    /\ size = 0
    /\ position = 0
    /\ values = <<>>
    /\ checkBounds = "undefined"
    /\ variadic = FALSE
    /\ dIndex = 0
    /\ packed = <<>>
    /\ data = <<>>
    /\ unpacked = <<>>
    /\ err = "none"
    /\ start = 0
    /\ chained = FALSE
    /\ wr = <<>>
    /\ rd = <<>>
    /\ refused = <<>>
    /\ trail = <<>>

host == <<IS_LITTLE_ENDIAN, IS_64bit>>
packState == <<values, variadic, dIndex, packed, wr>>
unpackState == <<es5, data, unpacked, start, chained, rd, refused>>

\* sizeOf(format): src/index.js:394-436
sizeOfCall(f) ==
    /\ pc = "idle"
    /\ \E st \in {sizeOfWalk(f)} :
          /\ size' = st.size
          /\ decimal' = st.decimal
          /\ trail' = st.trail
    /\ fn' = "sizeOf"
    /\ pc' = "done"
    /\ format' = f
    /\ UNCHANGED <<host, position, checkBounds, err, packState, unpackState>>

\* pack(format, data, checkBounds), or pack(format, v1, v2, ...) when mode.va:
\* src/index.js:516-598.  g is what the new Buffer holds.
packCall(f, vs, mode, g) ==
    /\ pc = "idle"
    /\ OnThisHost(f)
    /\ \E cb \in {IF mode.va THEN "true" ELSE mode.cb} :
       \E st \in {packWalk(f, vs, cb, [j \in 1..sizeOf(f) |-> g])} :
          /\ checkBounds' = cb
          /\ position' = st.position
          /\ decimal' = st.decimal
          /\ dIndex' = st.dIndex
          /\ packed' = st.packed
          /\ err' = st.err
          /\ wr' = st.wr
          /\ trail' = st.trail
          /\ pc' = IF st.err = "none" THEN "done" ELSE "error"
    /\ fn' = "pack"
    /\ format' = f
    /\ values' = vs
    /\ variadic' = mode.va
    /\ UNCHANGED <<host, size, unpackState>>

\* unpackFrom(f, d, cb, pos), src/index.js:442-514, or unpack of the ES5 build
unpackRun(f, d, cb, pos, legacy, ch) ==
    /\ \E st \in {unpackFrom(f, d, cb, pos, legacy)} :
          /\ position' = st.position
          /\ decimal' = st.decimal
          /\ unpacked' = st.unpacked
          /\ err' = st.err
          /\ rd' = st.rd
          /\ refused' = st.refused
          /\ trail' = st.trail
          /\ pc' = IF st.err = "none" THEN "done" ELSE "error"
    /\ fn' = "unpack"
    /\ format' = f
    /\ data' = d
    /\ checkBounds' = cb
    /\ start' = pos
    /\ es5' = legacy
    /\ chained' = ch
    /\ UNCHANGED <<host, size, packState>>

\* unpack(format, data, checkBounds) or unpackFrom(format, data, checkBounds, position)
unpackCall(f, d, cb, pos, legacy) ==
    /\ pc = "idle"
    /\ OnThisHost(f)
    /\ OnThisBuild(f, legacy, pos)
    /\ unpackRun(f, d, cb, pos, legacy, FALSE)

\* unpack(format, pack(format, values), checkBounds): the buffer pack returned is decoded
\* with the format it was packed with
unpackPacked(cb, legacy) ==
    /\ fn = "pack" /\ pc = "done"
    /\ OnThisBuild(format, legacy, 0)
    /\ unpackRun(format, packed, cb, 0, legacy, TRUE)

\* the bytes that precede a packed structure in a longer buffer
Leading == {<<1>>, <<0, 1>>}

\* unpackFrom(format, A ++ pack(format, values), false, |A|): the buffer pack returned is
\* decoded where it lies after the bytes A
unpackAfter(A) ==
    /\ fn = "pack" /\ pc = "done"
    /\ unpackRun(format, A \o packed, "false", Len(A), FALSE, TRUE)

\* sizeOf, pack, and unpack of what pack returned
Next ==
    \/ pc = "idle" /\ \E f \in AnyPrefix \cup OneCode \cup Counted \cup Inner \cup ByteThenInt :
                          sizeOfCall(f)
    \/ pc = "idle" /\ \E call \in PackCalls, mode \in Modes, g \in Garbage :
                          packCall(call.f, call.vs, mode, g)
    \/ \E cb \in {"true", "false"}, legacy \in BOOLEAN : unpackPacked(cb, legacy)
    \/ \E A \in Leading : unpackAfter(A)

Spec == Init /\ [][Next]_vars

\* unpack and unpackFrom of any buffer
NextUnpack ==
    \/ pc = "idle" /\ \E f \in General, d \in Buffers, cb \in {"true", "false"},
                         pos \in Starts, legacy \in BOOLEAN : unpackCall(f, d, cb, pos, legacy)
    \/ pc = "idle" /\ \E d \in Buffers : unpackCall(<<"i">>, d, "true", 0, FALSE)

SpecUnpack == Init /\ [][NextUnpack]_vars

----------------------------------------------------------------------------
(* Properties *)

\* the offsets of a list of <<offset, size>> spans
offsets(spans) == [k \in 1..Len(spans) |-> spans[k][1]]

\* a call has been made and has returned or thrown
called(name) == fn = name /\ pc # "idle"

\* C1: whenever pack returns, the buffer it returns is sizeOf(format) bytes long, its cursor
\* after the last field equals sizeOf(format), and every span [position, position + size)
\* it handed to an encoder lies inside [0, sizeOf(format)).
C1_PackFillsSizeOf ==
    (fn = "pack" /\ pc = "done") =>
        /\ Len(packed) = sizeOf(format)
        /\ position = sizeOf(format)
        /\ \A k \in 1..Len(wr) : wr[k][1] >= 0 /\ wr[k][1] + wr[k][2] <= sizeOf(format)

\* pack returned after aligning its second field and writing a text field of two bytes
C1_Witness ==
    /\ fn = "pack" /\ pc = "done"
    /\ \/ Len(wr) = 2 /\ wr[2] = <<2, 2>> /\ Len(packed) = 4
       \/ Len(wr) = 2 /\ wr[2] = <<1, 2>> /\ Len(packed) = 3

\* C2: for every value-bearing code t but f and d, every value v in its range and every
\* explicit prefix p, pack(p+t, [v]) returns and unpack(p+t, pack(p+t, [v]))[0] is v.
C2_RoundTrip ==
    (format \in Single /\ Len(values) = 1 /\ values[1] \in InRange(format[2])) =>
        /\ called("pack") => pc = "done"
        /\ (called("unpack") /\ chained /\ start = 0 /\ ~Truthy(checkBounds)) =>
               pc = "done" /\ Len(unpacked) >= 1 /\ unpacked[1] = values[1]

\* C3: for a format with pad codes, unpack reads each value field of the buffer pack
\* returned at the offset where pack wrote it.
C3_PadOffsetsAgree ==
    (called("unpack") /\ chained /\ start = 0 /\ ~Truthy(checkBounds) /\ pc = "done"
        /\ "x" \in chars(format)) =>
        offsets(rd) = offsets(wr)

\* C4: with bounds checking on, unpack decodes a value-producing occurrence only when its
\* span end (cursor + field size) is below data.length, and throws the truncated-buffer
\* error at the first occurrence whose span end reaches or exceeds it; the throw leaves
\* that field and the later ones undecoded and the call returns nothing.  unpack('i') of
\* a buffer of three bytes throws.
C4_TruncatedExactly ==
    (called("unpack") /\ Truthy(checkBounds)) =>
        /\ \A k \in 1..Len(rd) : rd[k][1] + rd[k][2] < Len(data)
        /\ pc = "done" => Len(rd) = Len(consumers(format))
        /\ pc = "error" => err = "truncated"
        /\ err = "truncated" =>
              /\ pc = "error"
              /\ refused[1] + refused[2] >= Len(data)
              /\ Len(unpacked) = Len(rd) /\ Len(rd) < Len(consumers(format))
              /\ \A k \in 1..Len(rd) : rd[k][1] + rd[k][2] <= refused[1]
        /\ (format = <<"i">> /\ Len(data) = 3 /\ start = 0) => err = "truncated"

\* a field was decoded and the next one, ending exactly at data.length, was refused
C4_Witness ==
    /\ called("unpack") /\ Truthy(checkBounds)
    /\ err = "truncated" /\ Len(rd) = 1 /\ rd[1][2] > 0
    /\ refused[1] + refused[2] = Len(data)

\* C5: with bounds checking on, pack throws the insufficient-values error exactly when
\* the value sequence has fewer entries than the format has value-consuming occurrences;
\* the variadic form forces bounds checking on.
C5_InsufficientExactly ==
    /\ (called("pack") /\ Truthy(checkBounds)) =>
           (err = "insufficient" <=> Len(values) < Len(consumers(format)))
    /\ (called("pack") /\ variadic) => Truthy(checkBounds)

\* C6 as stated: pack with an array and the checkBounds argument omitted throws the
\* insufficient-values error when the array has fewer entries than the format has
\* value-consuming occurrences.
C6_OmittedIsChecked ==
    (called("pack") /\ ~variadic /\ checkBounds = "undefined"
        /\ Len(values) < Len(consumers(format))) => err = "insufficient"

\* C6 amended: pack with an array and the checkBounds argument omitted behaves as
\* checkBounds = false: it never throws the insufficient-values error, and leaves what
\* pack(format, values, false) leaves.
C6_OmittedIsUnchecked ==
    (called("pack") /\ ~variadic /\ checkBounds = "undefined") =>
        /\ err # "insufficient"
        /\ \E g \in Garbage :
              \E st \in {packWalk(format, values, "false", [j \in 1..sizeOf(format) |-> g])} :
                  /\ st.packed = packed /\ st.err = err
                  /\ st.position = position /\ st.dIndex = dIndex

\* pack returned although the array was one value short; the missing value was written
C6_Witness ==
    /\ called("pack") /\ ~variadic /\ checkBounds = "undefined"
    /\ Len(values) < Len(consumers(format))
    /\ pc = "done" /\ Len(wr) = Len(consumers(format)) /\ Len(wr) > 0

RECURSIVE keepFrom(_, _)
\* the digits and type codes of f from index k on
keepFrom(f, k) ==
    IF k >= Len(f) THEN <<>>
    ELSE IF IsDigit(f[k + 1]) \/ HasOp(f[k + 1]) THEN <<f[k + 1]>> \o keepFrom(f, k + 1)
    ELSE keepFrom(f, k + 1)

\* f without its unrecognized characters
Stripped(f) == SubSeq(f, 1, firstIndex(f)) \o keepFrom(f, firstIndex(f))

RECURSIVE discardFrom(_, _, _)
\* f from index k on, without its unrecognized characters and the digits before each
discardFrom(f, k, dec) ==
    IF k >= Len(f) THEN dec
    ELSE IF IsDigit(f[k + 1]) THEN discardFrom(f, k + 1, Append(dec, f[k + 1]))
    ELSE IF HasOp(f[k + 1]) THEN dec \o <<f[k + 1]>> \o discardFrom(f, k + 1, <<>>)
    ELSE discardFrom(f, k + 1, <<>>)

Discarding(f) == SubSeq(f, 1, firstIndex(f)) \o discardFrom(f, firstIndex(f), <<>>)

\* C7 as stated: an unrecognized character discards the digits before it, so sizeOf of a
\* format is sizeOf of the format without its unrecognized characters and their digits.
C7_UnrecognizedDiscardsDigits ==
    called("sizeOf") => size = sizeOf(Discarding(format))

\* C7 amended: an unrecognized character is skipped and the digits before it stay: sizeOf,
\* pack and unpack of a format leave what they leave for the format without its
\* unrecognized characters, the digits before them counting for the next type code.
C7_UnrecognizedIsSkipped ==
    /\ called("sizeOf") => size = sizeOf(Stripped(format))
    /\ called("pack") =>
          \E g \in Garbage :
             \E st \in {packWalk(Stripped(format), values, checkBounds,
                                 [j \in 1..sizeOf(Stripped(format)) |-> g])} :
                 /\ st.packed = packed /\ st.err = err
                 /\ st.position = position /\ st.dIndex = dIndex
    /\ called("unpack") =>
          \E st \in {unpackFrom(Stripped(format), data, checkBounds, start, es5)} :
              st.unpacked = unpacked /\ st.err = err /\ st.position = position

\* sizeOf of a format with a count before an unrecognized character took the count
C7_Witness ==
    /\ called("sizeOf") /\ Stripped(format) # format
    /\ Discarding(format) # Stripped(format)
    /\ size > sizeOf(Discarding(format))

\* the code of the k-th value-bearing occurrence of the format of the last call
codeOf(k) == consumers(format)[k]

\* C8: pack of a p field of width L at pos with text of m bytes leaves in the buffer the
\* count n = min(m, L - 1, 255) at pos, the first n bytes of the text after it, and zeros
\* up to pos + L.
C8_PascalEncoding ==
    (called("pack") /\ pc = "done") =>
        \A k \in 1..Len(wr) :
            (codeOf(k) = "p" /\ k <= Len(values) /\ values[k].t = "str") =>
                LET pos == wr[k][1]
                    L == wr[k][2]
                    bytes == utf8Encode(values[k].s)
                    n == Min(Min(Len(bytes), L - 1), 255)
                IN /\ packed[pos + 1] = n
                   /\ SubSeq(packed, pos + 2, pos + 1 + n) = SubSeq(bytes, 1, n)
                   /\ \A j \in (pos + 1 + n)..(pos + L - 1) : packed[j + 1] = 0

\* C9: unpack of a p field of width L at pos takes its count from data[pos], clamped to
\* L - 1, and returns the count bytes after it as text, wherever the field lies.
C9_PascalDecoding ==
    called("unpack") =>
        \A k \in 1..Len(rd) :
            (codeOf(k) = "p" /\ rd[k][1] + rd[k][2] <= Len(data)) =>
                LET pos == rd[k][1]
                    L == rd[k][2]
                    count == IF data[pos + 1] >= L THEN L - 1 ELSE data[pos + 1]
                IN unpacked[k] = StrV(toStringUtf8(SubSeq(data, pos + 2, pos + 1 + count)))

\* C10: unpack of an s field of length L at pos returns the bytes from pos to the least of
\* pos + L, the first zero byte at or after pos, and data.length when there is none.
C10_StringDecoding ==
    called("unpack") =>
        \A k \in 1..Len(rd) :
            codeOf(k) = "s" =>
                LET pos == rd[k][1]
                    L == rd[k][2]
                    zero == IndexOfZero(data, pos)
                    end == Min(pos + L, IF zero = -1 THEN Len(data) ELSE zero)
                IN unpacked[k] = StrV(toStringUtf8(SubSeq(data, pos + 1, end)))

\* a text without the character U+0000
zeroFree(v) == v.t = "str" /\ \A j \in 1..Len(v.s) : v.s[j] # 0

\* C11: for an s field of length L and a zero-free text T, pack leaves in the field the
\* first min(|T|, L) bytes of T and then zeros, and unpack of the buffer pack returned
\* gives back those first min(|T|, L) bytes of T.
C11_TextTruncation ==
    \A k \in 1..Len(wr) :
        (codeOf(k) = "s" /\ k <= Len(values) /\ zeroFree(values[k])) =>
            LET pos == wr[k][1]
                L == wr[k][2]
                bytes == utf8Encode(values[k].s)
                n == Min(Len(bytes), L)
            IN /\ (called("pack") /\ pc = "done") =>
                     /\ SubSeq(packed, pos + 1, pos + n) = SubSeq(bytes, 1, n)
                     /\ \A j \in (pos + n)..(pos + L - 1) : packed[j + 1] = 0
               /\ (called("unpack") /\ chained /\ start = 0 /\ ~Truthy(checkBounds)
                      /\ pc = "done" /\ k <= Len(unpacked) /\ rd[k] = wr[k]) =>
                     unpacked[k] = StrV(toStringUtf8(SubSeq(bytes, 1, n)))

\* C12: unpackFrom(fmt, A ++ pack(fmt, v), false, |A|) returns what
\* unpack(fmt, pack(fmt, v), false) returns, whatever the bytes A and the prefix of fmt.
C12_SequentialDecoding ==
    (called("unpack") /\ chained /\ start > 0) =>
        \E st \in {unpackFrom(format, packed, "false", 0, FALSE)} :
            st.err = err /\ st.unpacked = unpacked

\* the format is a prefix or none, then digits or none, then one type code
oneCounted(f) ==
    /\ Len(f) > firstIndex(f)
    /\ HasOp(f[Len(f)])
    /\ \A j \in (firstIndex(f) + 1)..(Len(f) - 1) : IsDigit(f[j])

\* the digits of such a format, and the format without them
countOf(f) == SubSeq(f, firstIndex(f) + 1, Len(f) - 1)
uncounted(f) == SubSeq(f, 1, firstIndex(f)) \o <<f[Len(f)]>>

\* C13: sizeOf(prefix + n + t) is n * sizeOf(prefix + t) for every non-text code t and
\* every count n, zero and several digits included, and absent digits mean n = 1; for s
\* the count is the length (absent: 0) and for p the width (absent: 1).
C13_CountMultipliesSize ==
    (called("sizeOf") /\ oneCounted(format)) =>
        LET t == format[Len(format)]
            absent == countOf(format) = <<>>
            n == parseInt(countOf(format))
        IN CASE t = "s" -> size = (IF absent THEN 0 ELSE n)
             [] t = "p" -> size = (IF absent THEN 1 ELSE n)
             [] OTHER -> size = (IF absent THEN 1 ELSE n) * sizeOf(uncounted(format))

RECURSIVE occurrencesFrom(_, _, _)
\* the codes of the value fields a format of digits and type codes names, from index k
\* on: a scalar code under a count n stands n times, s and p stand once, x never
occurrencesFrom(f, k, dec) ==
    IF k >= Len(f) THEN <<>>
    ELSE LET c == f[k + 1]
         IN IF IsDigit(c) THEN occurrencesFrom(f, k + 1, Append(dec, c))
            ELSE IF c = "x" THEN occurrencesFrom(f, k + 1, <<>>)
            ELSE IF c \in {"s", "p"} THEN <<c>> \o occurrencesFrom(f, k + 1, <<>>)
            ELSE [j \in 1..(IF dec = <<>> THEN 1 ELSE parseInt(dec)) |-> c]
                 \o occurrencesFrom(f, k + 1, <<>>)

occurrences(f) == occurrencesFrom(f, firstIndex(f), <<>>)

\* C14: unpack returns one value per field occurrence in format order (n values for a
\* scalar code under a count n, one for s or p whatever the count, none for x), and pack
\* consumes as many values; unpack('<2H', [1, 0, 2, 0]) is [1, 2].
C14_OneValuePerOccurrence ==
    Stripped(format) = format =>
        /\ (called("unpack") /\ pc = "done") =>
              /\ Len(unpacked) = Len(occurrences(format))
              /\ \A k \in 1..Len(unpacked) :
                    unpacked[k].t = "str" <=> occurrences(format)[k] \in {"s", "p", "c"}
        /\ (called("pack") /\ pc = "done") => dIndex = Len(occurrences(format))
        /\ (called("unpack") /\ ~Truthy(checkBounds)
               /\ format = <<"<", "2", "H">> /\ data = <<1, 0, 2, 0>>) =>
              pc = "done" /\ unpacked = <<IntV(1), IntV(2)>>

\* the format starts with one of @ = < > !
prefixed(f) == Len(f) > 0 /\ f[1] \in Prefixes

\* the format whose walks must equal those of f: f without its '@', or with '>' for '!'
twin(f) ==
    IF prefixed(f) /\ f[1] = "@" /\ ~prefixed(Tail(f)) THEN Tail(f)
    ELSE IF prefixed(f) /\ f[1] = "!" THEN <<">">> \o Tail(f)
    ELSE f

\* C15: the first character is consumed iff it is one of @ = < > !; it selects the
\* little-endian registry for '<', the big-endian one for '>' and '!', that of the host
\* byte order for '=', the native one for '@', any other character and the empty format;
\* sizeOf raises on no format; sizeOf, pack and unpack of '@'+f are those of f and those
\* of '!'+f are those of '>'+f; a prefix character further on is skipped.
C15_FormatSelection ==
    /\ pc # "idle" =>
          /\ selectMap(format).skipFirst <=> prefixed(format)
          /\ selectMap(format).map =
                (IF ~prefixed(format) \/ format[1] = "@" THEN "NATIVE_MAP"
                 ELSE IF format[1] = "<" THEN "LITTLE_ENDIAN_MAP"
                 ELSE IF format[1] \in {">", "!"} THEN "BIG_ENDIAN_MAP"
                 ELSE IF IS_LITTLE_ENDIAN THEN "LITTLE_ENDIAN_MAP" ELSE "BIG_ENDIAN_MAP")
    /\ called("sizeOf") =>
          pc = "done" /\ size = sizeOf(twin(format)) /\ size = sizeOf(Stripped(format))
    /\ called("pack") =>
          \E g \in Garbage :
             \E st \in {packWalk(twin(format), values, checkBounds,
                                 [j \in 1..sizeOf(twin(format)) |-> g])} :
                 /\ st.packed = packed /\ st.err = err
                 /\ st.position = position /\ st.dIndex = dIndex
    /\ called("unpack") =>
          \E st \in {unpackFrom(twin(format), data, checkBounds, start, es5)} :
              st.unpacked = unpacked /\ st.err = err /\ st.position = position

\* pack under '!' wrote its second field big-endian and unaligned, and unpack read it back
C15_Witness ==
    /\ called("unpack") /\ chained /\ pc = "done"
    /\ format = <<"!", "B", "h">>
    /\ packed = <<7, 1, 2>> /\ unpacked = <<IntV(7), IntV(258)>>

RECURSIVE decFrom(_, _, _, _)
\* the digits the walk holds when it reaches index stop, having held dec at index k
decFrom(f, k, stop, dec) ==
    IF k >= stop THEN dec
    ELSE IF IsDigit(f[k + 1]) THEN decFrom(f, k + 1, stop, Append(dec, f[k + 1]))
    ELSE IF HasOp(f[k + 1]) THEN decFrom(f, k + 1, stop, <<>>)
    ELSE decFrom(f, k + 1, stop, dec)

\* the bytes the walk of the last call moves over for the code c under the count dec,
\* once the cursor is aligned
advance(c, dec) ==
    LET op == MapOp(selectMap(format).map, c)
    IN IF fn = "sizeOf" THEN fieldBytes(c, op, dec)
       ELSE IF fn = "unpack" /\ c = "x" THEN 0
       ELSE fieldSize(c, op, dec) * fieldRepeat(c, dec)

\* C16: the cursor of sizeOf, pack and unpackFrom never decreases; before a field of
\* alignment a > 1 it moves to the least multiple of a that is >= its value and before
\* any other field, and at a digit or an unrecognized character, it does not move; under
\* = < > ! every alignment is 1.  sizeOf('bi') = sizeOf('@bi') = 8, and 5 under = < > !.
C16_CursorInvariant ==
    LET k0 == firstIndex(format)
        before(j) == IF j > 1 THEN trail[j - 1] ELSE IF fn = "unpack" THEN start ELSE 0
    IN pc # "idle" =>
        /\ \A j \in 1..Len(trail) : trail[j] >= before(j)
        /\ pc = "done" =>
              /\ Len(trail) = Len(format) - k0
              /\ \A j \in 1..Len(trail) :
                    LET c == format[k0 + j]
                        a == MapOp(selectMap(format).map, c).align
                        aligned == trail[j]
                                   - advance(c, decimalValue(decFrom(format, k0, k0 + j - 1, <<>>)))
                    IN IF ~HasOp(c) THEN trail[j] = before(j)
                       ELSE /\ aligned >= before(j) /\ aligned < before(j) + a
                            /\ aligned % a = 0
                            /\ (prefixed(format) /\ format[1] \in ExplicitPrefixes) => a = 1
        /\ (called("sizeOf") /\ format \in ByteThenInt) =>
              size = (IF prefixed(format) /\ format[1] \in ExplicitPrefixes THEN 5 ELSE 8)

\* pack moved its cursor from 1 to 2 before the second field
C16_Witness ==
    called("pack") /\ pc = "done" /\ format = <<"B", "h">> /\ trail = <<1, 4>>

\* the four bytes of a 32-bit word in two's complement, most significant first
wordBytes(w) == <<(w \div 16777216) % 256, (w \div 65536) % 256, (w \div 256) % 256, w % 256>>

\* C17: for q and Q a (high, low) pair is written low word first and high word at pos + 4
\* in little-endian order, high word first in big-endian order; a plain number is first
\* promoted to low = the number as int32, high = 0 or all ones by its sign; unpack gives
\* back the two words, tagged unsigned for Q and signed for q.
C17_Int64Composition ==
    (Len(format) = 2 /\ format[1] \in ExplicitPrefixes /\ format[2] \in {"q", "Q"}
        /\ Len(values) = 1 /\ values[1].t \in {"long", "ulong", "int"}) =>
        LET v == values[1]
            low == v.n
            high == IF v.t = "int" THEN (IF v.n < 0 THEN -1 ELSE 0) ELSE v.h
            le == format[1] = "<" \/ (format[1] = "=" /\ IS_LITTLE_ENDIAN)
            image == IF le THEN Reverse(wordBytes(low)) \o Reverse(wordBytes(high))
                     ELSE wordBytes(high) \o wordBytes(low)
        IN /\ called("pack") => pc = "done" /\ packed = image
           /\ (called("unpack") /\ chained /\ start = 0 /\ ~Truthy(checkBounds)) =>
                 /\ pc = "done"
                 /\ unpacked = <<LongV(low, high, format[2] = "Q")>>

\* a pair of distinct words went through pack and unpack in big-endian order, and a
\* negative plain number in little-endian order
C17_Witness ==
    /\ called("unpack") /\ chained /\ pc = "done"
    /\ \/ /\ format = <<">", "q">> /\ packed = <<5, 6, 7, 8, 1, 2, 3, 4>>
          /\ unpacked = <<LongV(16909060, 84281096, FALSE)>>
       \/ /\ format = <<"<", "Q">> /\ values = <<IntV(-2)>>
          /\ packed = <<254, 255, 255, 255, 255, 255, 255, 255>>
          /\ unpacked = <<LongV(-2, -1, TRUE)>>

\* C18: bounds-checked unpack of a buffer at least sizeOf(format) bytes long, and so of
\* the buffer pack returned for the format, returns the values and does not throw the
\* truncated-buffer error, for every format with a value field.
C18_ExactSizeSuffices ==
    (called("unpack") /\ Truthy(checkBounds) /\ start = 0
        /\ Len(consumers(format)) >= 1 /\ Len(data) >= sizeOf(format)) =>
        err # "truncated" /\ pc = "done"

\* C19: the buffer pack returns depends on the format and the values alone: whatever the
\* new Buffer held before it was written, pack of the same format and values returns the
\* same bytes.
C19_PackDeterministic ==
    (called("pack") /\ pc = "done") =>
        \A g \in Garbage :
            \E st \in {packWalk(format, values, checkBounds, [j \in 1..sizeOf(format) |-> g])} :
                st.err = "none" /\ st.packed = packed

====
